---- MODULE Spec2Model ----
(***************************************************************************)
(* A model of two controllers of the scene editor:                         *)
(*   - EditorEditionTools (src/src/editor/components/edition.ts): the      *)
(*     tab-driven manager of the edition tools,                            *)
(*   - GUITextureEditor (src/unnamed/part_000): the texture list and its   *)
(*     preview.                                                            *)
(* The two controllers share no state. Spec is the edition-tools manager,  *)
(* TexSpec the texture editor.                                             *)
(***************************************************************************)
EXTENDS Integers, Sequences, FiniteSets, TLC

\* JavaScript's null / undefined.
Null == "null"

\* JavaScript truthiness of a string-or-null value (if (x), if (!x)).
Truthy(x) == x /= Null /\ x /= ""

(***************************************************************************)
(* EditorEditionTools                                                      *)
(***************************************************************************)

\* The objects handed to setObject; Null is the initial currentObject. The
\* manager reads an object through isSupported alone, and a tool may accept
\* any of them.
Objects == {Null, "mesh"}

\* The tab names a tool may carry. The manager compares tab names for
\* equality only, so a tool added under a name no tool has yet takes the
\* first unused name of TabOrder.
TabOrder == <<"A", "B", "C">>

TabNames == {TabOrder[k] : k \in DOMAIN TabOrder}

\* An edition tool as far as the manager reads it: its tabName and the
\* objects its isSupported accepts. A tool's divId is its own: the model
\* names a tool, and its container, by its position in tools.
ToolUniverse == [tabName : TabNames, supported : SUBSET Objects]

\* At most this many tools are registered.
MaxTools == 3

\* No tool (firstTool = null).
NoTool == 0

VARIABLES
    tools,           \* this.tools: the registered tools, in registration order
    currentTools,    \* this.currentTools: positions in tools
    currentObject,   \* this.currentObject
    lastTabName,     \* this.lastTabName
    containers,      \* the tools whose container $('#' + divId) is shown
    tabHidden,       \* this.tabs: tab id -> hidden
    toolCalls,       \* the calls the last operation made on the tools
    lastOp,          \* the last operation and its argument
    settled,         \* no tool was added since the last setObject
    toolObject,      \* t.object of each registered tool
    handlers,        \* the tools a finish-change handler was registered for
    lastChange,      \* the arguments of the last finish-change notification
    pushed           \* the entries the last operation pushed to UndoRedo

toolVars == <<tools, currentTools, currentObject, lastTabName, containers,
              tabHidden, toolCalls, lastOp, settled, toolObject, handlers,
              lastChange, pushed>>

\* The state of GUITextureEditor and of what it works on.
VARIABLES
    textures,             \* _core.currentScene.textures
    editedObject,         \* this.object ("obj" or Null)
    objectProperty,       \* object[propertyPath]: a position in textures
    rows,                 \* the rows of _texturesList: [name, recid]
    pending,              \* the file reads in flight: name -> how many
    started,              \* the file reads started so far
    targetTexture,        \* _targetTexture: a preview texture id
    dynamicTexture,       \* _dynamicTexture: a preview texture id
    previews,             \* preview texture id -> "live", "disposed", "twice"
    currentRenderTarget,  \* _currentRenderTarget: a position
    currentPixels,        \* _currentPixels: Null or "pixels"
    currentOnAfterRender, \* _currentOnAfterRender: a callback value
    onAfterRender,        \* position -> the texture's onAfterRender
    texCalls,             \* the calls the last handler made
    texFault,             \* the exception the last handler ended with
    texReturn,            \* the value the last handler returned, if any
    lastTexOp             \* the last handler and its argument

texVars == <<textures, editedObject, objectProperty, rows, pending, started,
             targetTexture, dynamicTexture, previews, currentRenderTarget,
             currentPixels, currentOnAfterRender, onAfterRender, texCalls,
             texFault, texReturn, lastTexOp>>

\* The edit panel and the texture editors opened on the scene one after the
\* other.
VARIABLES
    closed,        \* the current editor's onClose has run
    generation,    \* the number of texture editors constructed so far
    closedFields,  \* editor -> the fields an editor that was replaced kept
    orphans        \* the file reads in flight that replaced editors started

closeVars == <<closed, generation, closedFields, orphans>>

\* t.isSupported(object)
IsSupported(t, object) == object \in t.supported

\* W2Tabs.add: a tab whose id is already in use is refused; a new tab is
\* visible.
TabsAdd(tabs, id) ==
    IF id \in DOMAIN tabs THEN tabs ELSE [x \in DOMAIN tabs \cup {id} |->
        IF x = id THEN FALSE ELSE tabs[x]]

\* W2Tabs.show / W2Tabs.hide: by tab id.
TabsShow(tabs, id) ==
    IF id \in DOMAIN tabs THEN [tabs EXCEPT ![id] = FALSE] ELSE tabs

TabsHide(tabs, id) ==
    IF id \in DOMAIN tabs THEN [tabs EXCEPT ![id] = TRUE] ELSE tabs

\* The tabs the user can click.
VisibleTabs == {id \in DOMAIN tabHidden : ~tabHidden[id]}

\* One iteration of changeTab's forEach on tool i; s = [shown, last].
\* ChangeTabMissingHide is the faulty variant that hides no container.
ChangeTabMissingHide(ts, i, target, s) ==
    IF ts[i].tabName = target
    THEN [shown |-> s.shown \cup {i}, last |-> target]
    ELSE s

ChangeTabStep(ts, i, target, s) ==
    IF ts[i].tabName = target
    THEN [shown |-> s.shown \cup {i}, last |-> target]
    ELSE [shown |-> s.shown \ {i}, last |-> s.last]

RECURSIVE ChangeTabLoop(_, _, _, _)
ChangeTabLoop(ts, i, target, s) ==
    IF i > Len(ts) THEN s
    ELSE ChangeTabLoop(ts, i + 1, target, ChangeTabStep(ts, i, target, s))

\* changeTab(target) from the containers shown and lastTabName last.
ChangeTab(ts, target, shown, last) ==
    ChangeTabLoop(ts, 1, target, [shown |-> shown, last |-> last])

\* The choice of firstTool for a supporting tool i with tabName name, from
\* firstTool so far and lastTabName last. The faulty variants:
\* FirstToolLastWins takes every supporting tool, FirstToolNoSticky ignores
\* lastTabName.
FirstToolLastWins(name, i, firstTool, last) == i

FirstToolNoSticky(name, i, firstTool, last) ==
    IF firstTool = NoTool THEN i ELSE firstTool

FirstTool(name, i, firstTool, last) ==
    IF name = last THEN i
    ELSE IF firstTool = NoTool THEN i
    ELSE firstTool

\* One iteration of setObject's forEach on tool i;
\* s = [cur, first, shown, tabs, calls].
SetObjectStep(ts, i, object, last, s) ==
    IF IsSupported(ts[i], object)
    THEN [cur   |-> Append(s.cur, i),
          first |-> FirstTool(ts[i].tabName, i, s.first, last),
          shown |-> s.shown \cup {i},
          tabs  |-> TabsShow(s.tabs, ts[i].tabName),
          calls |-> s.calls \o <<<<"update", i>>, <<"onFinishChange", i>>>>]
    ELSE [s EXCEPT !.shown = @ \ {i},
                   !.tabs = TabsHide(@, ts[i].tabName)]

RECURSIVE SetObjectLoop(_, _, _, _, _)
SetObjectLoop(ts, i, object, last, s) ==
    IF i > Len(ts) THEN s
    ELSE SetObjectLoop(ts, i + 1, object, last,
                       SetObjectStep(ts, i, object, last, s))

\* The list setObject starts currentTools from. SetObjectKeepsTools is the
\* faulty variant that does not empty it.
SetObjectKeepsTools(cur) == cur

SetObjectFreshTools(cur) == <<>>

\* setObject(object): the state it leaves, as
\* [cur, shown, tabs, last, calls].
SetObjectResult(ts, object, cur, shown, tabs, last) ==
    LET s == SetObjectLoop(ts, 1, object, last,
                 [cur |-> SetObjectFreshTools(cur), first |-> NoTool,
                  shown |-> shown, tabs |-> tabs, calls |-> <<>>])
        c == IF s.first /= NoTool
             THEN ChangeTab(ts, ts[s.first].tabName, s.shown, last)
             ELSE [shown |-> s.shown, last |-> last]
    IN  [cur   |-> s.cur,
         shown |-> c.shown,
         tabs  |-> s.tabs,
         last  |-> c.last,
         calls |-> IF s.first /= NoTool
                   THEN Append(s.calls, <<"changeTab", s.first>>)
                   ELSE s.calls]

\* t.update(object) on the tools that support object: the tool keeps the
\* object it edits in t.object.
UpdateObjects(ts, object, objs) ==
    [i \in DOMAIN ts |-> IF IsSupported(ts[i], object) THEN object
                         ELSE objs[i]]

\* t.tool.onFinishChange(t.tool.element, handler) on the tools that support
\* object: the tools a handler has been registered for.
RegisterHandlers(ts, object, hs) ==
    hs \cup {i \in DOMAIN ts : IsSupported(ts[i], object)}

\* The property names and values a finish-change notification carries, and
\* the object whose property changed.
Properties == {"position"}

Values == {"v1", "v2"}

ChangedObject == "target"

\* No finish-change notification.
NoChange == [tool |-> NoTool]

\* An entry pushed with from and to exchanged.
UndoEntrySwapped(t, property, result, object, initialValue) ==
    [baseObject |-> t, property |-> property, to |-> initialValue,
     from |-> result, object |-> object]

\* The entry the finish-change handler of a tool hands to UndoRedo.Push;
\* t is t.object when the handler runs.
UndoEntry(t, property, result, object, initialValue) ==
    [baseObject |-> t, property |-> property, to |-> result,
     from |-> initialValue, object |-> object]

\* lastTabName after addTool, made to take the name of every tool added.
InitialTabNameAlways(last, name) == name

\* lastTabName after addTool of a tool with tab name name.
InitialTabName(last, name) ==
    IF ~Truthy(last) THEN name ELSE last

\* The state after the tabs are created and before the first addTool.
ToolsInit ==
    /\ toolObject = <<>>
    /\ handlers = {}
    /\ lastChange = NoChange
    /\ pushed = <<>>
    /\ tools = <<>>
    /\ currentTools = <<>>
    /\ currentObject = Null
    /\ lastTabName = Null
    /\ containers = {}
    /\ tabHidden = <<>>
    /\ toolCalls = <<>>
    /\ lastOp = <<"init">>
    /\ settled = FALSE

\* The names a tool may be added under: a name in use, or the next new one.
UsedTabNames == {tools[i].tabName : i \in DOMAIN tools}

NewTabNames ==
    LET free == {k \in DOMAIN TabOrder : TabOrder[k] \notin UsedTabNames}
    IN  {TabOrder[k] : k \in {j \in free : \A l \in free : j <= l}}

\* addTool(tool)
AddTool(tool) ==
    /\ Len(tools) < MaxTools
    /\ tool.tabName \in UsedTabNames \cup NewTabNames
    /\ tools' = Append(tools, tool)
    /\ containers' = containers \ {Len(tools) + 1}
    /\ tabHidden' = TabsHide(TabsAdd(tabHidden, tool.tabName), tool.tabName)
    /\ lastTabName' = InitialTabName(lastTabName, tool.tabName)
    /\ toolCalls' = <<>>
    /\ lastOp' = <<"addTool", tool.tabName>>
    /\ settled' = FALSE
    /\ toolObject' = Append(toolObject, Null)
    /\ lastChange' = NoChange
    /\ pushed' = <<>>
    /\ UNCHANGED <<currentTools, currentObject, handlers>>
    /\ UNCHANGED <<texVars, closeVars>>

\* The assignments of setObject(object).
DoSetObject(object) ==
    LET r == SetObjectResult(tools, object, currentTools, containers,
                             tabHidden, lastTabName)
    IN  /\ currentTools' = r.cur
        /\ containers' = r.shown
        /\ tabHidden' = r.tabs
        /\ lastTabName' = r.last
        /\ toolCalls' = r.calls
        /\ currentObject' = object
        /\ toolObject' = UpdateObjects(tools, object, toolObject)
        /\ handlers' = RegisterHandlers(tools, object, handlers)
        /\ lastChange' = NoChange
        /\ pushed' = <<>>
        /\ UNCHANGED tools

\* setObject(object), as core.onSelectObject calls it.
SetObject(object) ==
    /\ DoSetObject(object)
    /\ lastOp' = <<"setObject", object>>
    /\ settled' = TRUE
    /\ UNCHANGED <<texVars, closeVars>>

\* refresh()
Refresh ==
    /\ DoSetObject(currentObject)
    /\ lastOp' = <<"refresh", currentObject>>
    /\ settled' = TRUE
    /\ UNCHANGED <<texVars, closeVars>>

\* The tools updateDisplay() walks. UpdateDisplayAll is the faulty variant
\* that walks every registered tool.
UpdateDisplayAll == [i \in 1..Len(tools) |-> i]

UpdateDisplayTargets == currentTools

\* updateDisplay()
UpdateDisplay ==
    /\ toolCalls' = [k \in 1..Len(UpdateDisplayTargets) |->
                        <<"updateDisplay", UpdateDisplayTargets[k]>>]
    /\ lastOp' = <<"updateDisplay", Null>>
    /\ lastChange' = NoChange
    /\ pushed' = <<>>
    /\ UNCHANGED <<tools, currentTools, currentObject, lastTabName,
                   containers, tabHidden, settled, toolObject, handlers>>
    /\ UNCHANGED <<texVars, closeVars>>

\* A click on a visible tab: its onClick calls changeTab(event.target).
ClickTab(id) ==
    /\ id \in VisibleTabs
    /\ LET c == ChangeTab(tools, id, containers, lastTabName)
       IN  /\ containers' = c.shown
           /\ lastTabName' = c.last
    /\ toolCalls' = <<>>
    /\ lastOp' = <<"click", id>>
    /\ lastChange' = NoChange
    /\ pushed' = <<>>
    /\ UNCHANGED <<tools, currentTools, currentObject, tabHidden, settled,
                   toolObject, handlers>>
    /\ UNCHANGED <<texVars, closeVars>>

\* The finish-change handler setObject registered for tool i runs, for a
\* change made in the tool's shown container.
OnFinishChange(i, property, result, initialValue) ==
    /\ i \in handlers
    /\ i \in containers
    /\ pushed' = <<UndoEntry(toolObject[i], property, result, ChangedObject,
                             initialValue)>>
    /\ lastChange' = [tool |-> i, property |-> property, result |-> result,
                      object |-> ChangedObject,
                      initialValue |-> initialValue]
    /\ toolCalls' = <<>>
    /\ lastOp' = <<"finishChange", i>>
    /\ UNCHANGED <<tools, currentTools, currentObject, lastTabName,
                   containers, tabHidden, settled, toolObject, handlers>>
    /\ UNCHANGED <<texVars, closeVars>>

Next ==
    \/ \E tool \in ToolUniverse : AddTool(tool)
    \/ \E object \in Objects : SetObject(object)
    \/ Refresh
    \/ UpdateDisplay
    \/ \E id \in TabNames : ClickTab(id)
    \/ \E i \in 1..MaxTools, property \in Properties, result \in Values :
          \E initialValue \in Values \ {result} :
             OnFinishChange(i, property, result, initialValue)

(***************************************************************************)
(* GUITextureEditor                                                        *)
(***************************************************************************)

\* A name is a sequence of pieces, so that the string operations the editor
\* applies to names (concatenation, replace, toLowerCase, indexOf) are
\* computed on it.
ToLowerCase(name) ==
    [k \in DOMAIN name |-> IF name[k] = ".HDR" THEN ".hdr" ELSE name[k]]

\* name.indexOf(piece) !== -1
Contains(name, piece) == \E k \in DOMAIN name : name[k] = piece

\* name.replace(piece, ""): the first occurrence is removed.
ReplaceFirst(name, piece) ==
    IF ~Contains(name, piece) THEN name
    ELSE LET k == CHOOSE x \in DOMAIN name :
                     /\ name[x] = piece
                     /\ \A y \in DOMAIN name : name[y] = piece => x <= y
         IN  SubSeq(name, 1, k - 1) \o SubSeq(name, k + 1, Len(name))

\* A texture of the edited scene as far as the editor reads it: its name,
\* whether it has a _buffer, isCube, isRenderTarget, and whether the host
\* has set an onAfterRender on it.
SceneTexture(name, buffer, isCube, isRenderTarget, host) ==
    [name |-> name, buffer |-> buffer, isCube |-> isCube,
     isRenderTarget |-> isRenderTarget, host |-> host]

\* The textures a scene may hold when the editor is opened: a prefix of
\* this list. Among them: render targets with and without a callback of
\* the host, a texture known to FilesInput.FilesTextures, an .hdr cube
\* texture, a cube texture with neither buffer nor file, and a texture with
\* a buffer.
SceneTextures ==
    << SceneTexture(<<"mirror">>, FALSE, FALSE, TRUE, TRUE),
       SceneTexture(<<"wood", ".png">>, FALSE, FALSE, FALSE, FALSE),
       SceneTexture(<<"sky", ".HDR">>, TRUE, TRUE, FALSE, FALSE),
       SceneTexture(<<"env">>, FALSE, TRUE, FALSE, FALSE),
       SceneTexture(<<"shadow">>, FALSE, FALSE, TRUE, FALSE),
       SceneTexture(<<"noise">>, TRUE, FALSE, FALSE, FALSE) >>

\* FilesInput.FilesTextures: the names with a loaded file.
FilesTextures == {<<"wood", ".png">>}

\* The names of the files the user may choose.
FileNames == {<<"a", ".png">>, <<"data:", "b", ".HDR">>}

\* At most this many file reads are started in all.
MaxFiles == 2

\* The scenes on which editors are closed and reopened hold at most this
\* many textures when the first editor is opened.
MaxCloseScene == 2

\* At most this many texture editors are opened one after the other.
MaxEditors == 2

\* A callback value: none (undefined), the host's callback of the render
\* target at position of, or the wrapper that editor number of installs.
\* Wrapper is the wrapper of the current editor.
NoCallback == [kind |-> "none", of |-> 0]

HostCallback(p) == [kind |-> "host", of |-> p]

EditorWrapper(g) == [kind |-> "wrapper", of |-> g]

Wrapper == EditorWrapper(generation)

\* No texture (a null reference); textures are referred to by their
\* position in currentScene.textures, preview textures by their id.
NoTexture == 0

\* The events the core dispatches to onEvent.
Events ==
    [eventType : {"SCENE_EVENT"},
     sceneEvent : {"OBJECT_PICKED", "OBJECT_ADDED", "OBJECT_REMOVED"},
     guiEvent : {Null}]
    \cup
    [eventType : {"GUI_EVENT"},
     sceneEvent : {Null},
     guiEvent : {"LAYOUT_CHANGED", "GRID_SELECTED"}]
    \cup
    [eventType : {"KEY_EVENT"}, sceneEvent : {Null}, guiEvent : {Null}]

\* The cube faces a render target is rendered for.
Faces == {0, 1}


\* textures[index] for a JavaScript index: undefined (NoTexture) outside the
\* array.
TextureAt(index) ==
    IF index + 1 \in DOMAIN textures THEN index + 1 ELSE NoTexture

\* GUIGrid.getRowCount()
GetRowCount(rs) == Len(rs)

\* GUIGrid.addRow(row): the row is stored as given.
AddRow(rs, row) == Append(rs, row)

\* GUIGrid.addRow(row) as _onReadFileCallback calls it, on a list that
\* destroy() may have been called on: a destroyed grid stores the row in
\* its detached records or throws.
AddRowOutcomes(rs, row, destroyed) ==
    IF destroyed
    THEN {[rows |-> AddRow(rs, row), fault |-> "none"],
          [rows |-> rs, fault |-> "TypeError"]}
    ELSE {[rows |-> AddRow(rs, row), fault |-> "none"]}

\* GUIGrid.clear()
ClearRows(rs) == <<>>

\* _fillTextureList(): the list is cleared and gets one row per texture,
\* whose recid is the texture's index i.
RECURSIVE FillLoop(_, _, _)
FillLoop(txs, i, rs) ==
    IF i >= Len(txs) THEN rs
    ELSE FillLoop(txs, i + 1,
                  AddRow(rs, [name |-> txs[i + 1].name, recid |-> i]))

FillTextureList(txs, rs) == FillLoop(txs, 0, ClearRows(rs))

\* texture.dispose() on a preview texture.
Dispose(pv, id) ==
    [pv EXCEPT ![id] = IF @ = "live" THEN "disposed" ELSE "twice"]

\* A new preview texture (Texture.Parse, new DynamicTexture).
FreshId(pv) ==
    CHOOSE id \in 1..(Cardinality(DOMAIN pv) + 1) :
        /\ id \notin DOMAIN pv
        /\ \A other \in 1..(Cardinality(DOMAIN pv) + 1) :
              other \notin DOMAIN pv => id <= other

NewPreview(pv, id) ==
    [x \in DOMAIN pv \cup {id} |-> IF x = id THEN "live" ELSE pv[x]]

\* The editor's fields a handler works on, as a record. A preview texture
\* that no field refers to when a handler starts is out of the editor's
\* reach and is dropped.
EditorState ==
    [target  |-> targetTexture,
     dyn     |-> dynamicTexture,
     pv      |-> [id \in DOMAIN previews \cap {targetTexture, dynamicTexture}
                    |-> previews[id]],
     rt      |-> currentRenderTarget,
     pixels  |-> currentPixels,
     saved   |-> currentOnAfterRender,
     hooks   |-> onAfterRender,
     prop    |-> objectProperty,
     calls   |-> <<>>,
     fault   |-> "none"]

\* The assignments a handler that ends in state e makes.
Commit(e) ==
    /\ targetTexture' = e.target
    /\ dynamicTexture' = e.dyn
    /\ previews' = e.pv
    /\ currentRenderTarget' = e.rt
    /\ currentPixels' = e.pixels
    /\ currentOnAfterRender' = e.saved
    /\ onAfterRender' = e.hooks
    /\ objectProperty' = e.prop
    /\ texCalls' = e.calls
    /\ texFault' = e.fault

\* A _restorRenderTarget that leaves the render target's onAfterRender as
\* it is.
RestoreKeepsHook(e) ==
    IF e.dyn = NoTexture
    THEN [e EXCEPT !.fault = "TypeError"]
    ELSE [e EXCEPT !.pv = Dispose(@, e.dyn),
                   !.calls = Append(@, <<"dispose", e.dyn>>),
                   !.dyn = NoTexture,
                   !.pixels = Null,
                   !.rt = NoTexture]

\* _restorRenderTarget()
RestorRenderTarget(e) ==
    LET h == [e EXCEPT !.hooks[e.rt] = e.saved]
    IN  IF h.dyn = NoTexture
        THEN [h EXCEPT !.fault = "TypeError"]
        ELSE [h EXCEPT !.pv = Dispose(@, h.dyn),
                       !.calls = Append(@, <<"dispose", h.dyn>>),
                       !.dyn = NoTexture,
                       !.pixels = Null,
                       !.rt = NoTexture]

\* A _configureRenderTarget that does not show the dynamic texture.
ConfigureKeepsTarget(e) ==
    LET id == FreshId(e.pv)
    IN  [e EXCEPT !.saved = e.hooks[e.rt],
                  !.pv = NewPreview(@, id),
                  !.dyn = id,
                  !.hooks[e.rt] = Wrapper]

\* _configureRenderTarget()
ConfigureRenderTarget(e) ==
    LET id == FreshId(e.pv)
    IN  [e EXCEPT !.saved = e.hooks[e.rt],
                  !.pv = NewPreview(@, id),
                  !.dyn = id,
                  !.hooks[e.rt] = Wrapper,
                  !.target = id]

\* An end of onClick that assigns the property whether or not the editor
\* has an object.
ClickAssignAlways(e, p) ==
    LET t == textures[p]
        a == IF t.isRenderTarget
             THEN ConfigureRenderTarget([e EXCEPT !.rt = p])
             ELSE LET id == FreshId(e.pv)
                  IN  [e EXCEPT !.pv = NewPreview(@, id), !.target = id]
    IN  [a EXCEPT !.prop = p]

\* The end of _texturesList.onClick, from "If render target, configure
\* canvas" on, for the texture at position p.
ClickAssign(e, p) ==
    LET t == textures[p]
        a == IF t.isRenderTarget
             THEN ConfigureRenderTarget([e EXCEPT !.rt = p])
             ELSE LET id == FreshId(e.pv)
                  IN  [e EXCEPT !.pv = NewPreview(@, id), !.target = id]
    IN  IF Truthy(editedObject) THEN [a EXCEPT !.prop = p] ELSE a

\* "Guess texture": whether onClick goes on after it.
GuessGoesOn(t) ==
    IF t.buffer THEN TRUE
    ELSE IF t.name \in FilesTextures THEN TRUE
    ELSE IF t.isCube THEN FALSE
    ELSE TRUE

\* _texturesList.onClick(selected) from the editor state e.
OnClickResult(e, selected) ==
    IF Len(selected) = 0 THEN e
    ELSE
    LET r == IF e.rt /= NoTexture THEN RestorRenderTarget(e) ELSE e
        p == TextureAt(selected[1])
    IN  IF r.fault /= "none" THEN r
        ELSE IF p = NoTexture THEN [r EXCEPT !.fault = "TypeError"]
        ELSE IF Contains(ToLowerCase(textures[p].name), ".hdr") THEN r
        ELSE
        LET d == IF r.target /= NoTexture
                 THEN [r EXCEPT !.pv = Dispose(@, r.target),
                                !.calls = Append(@, <<"dispose", r.target>>)]
                 ELSE r
        IN  IF ~GuessGoesOn(textures[p]) THEN d
            ELSE ClickAssign(d, p)

\* A call of callback cb with faceIndex face, from the editor state e. The
\* wrapper reads _currentOnAfterRender and _dynamicTexture when it runs; a
\* wrapper saved as its own original callback would recurse without end.
\* WrapperSkipsOriginal is the faulty variant that does not call the saved
\* callback.
\* The wrapper an editor that was closed and replaced left on a render
\* target: it reads the fields of that editor, whose dynamic texture the
\* disposal of its preview scene disposed.
RECURSIVE InvokeClosed(_, _, _)
InvokeClosed(e, g, face) ==
    LET c == closedFields[g]
        o == IF c.saved.kind = "host"
             THEN [e EXCEPT !.calls = Append(@, <<"host", c.saved.of, face>>)]
             ELSE IF c.saved.kind = "wrapper"
             THEN IF c.saved.of < g
                  THEN InvokeClosed(e, c.saved.of, face)
                  ELSE [e EXCEPT !.fault = "RangeError"]
             ELSE e
    IN  IF o.fault /= "none" THEN o
        ELSE IF ~c.dyn
        THEN [o EXCEPT !.calls = Append(@, <<"readPixels">>),
                       !.fault = "TypeError"]
        ELSE [o EXCEPT !.calls = @ \o <<<<"readPixels">>,
                                        <<"closedPutImageData", g>>>>]

WrapperSkipsOriginal(e, face) ==
    IF e.dyn = NoTexture
    THEN [e EXCEPT !.pixels = "pixels",
                   !.calls = Append(@, <<"readPixels">>),
                   !.fault = "TypeError"]
    ELSE [e EXCEPT !.pixels = "pixels",
                   !.calls = @ \o <<<<"readPixels">>,
                                   <<"putImageData", e.dyn>>>>]

InvokeWrapper(e, face) ==
    LET o == IF e.saved.kind = "host"
             THEN [e EXCEPT !.calls = Append(@, <<"host", e.saved.of, face>>)]
             ELSE IF e.saved.kind = "wrapper"
             THEN IF e.saved.of < generation
                  THEN InvokeClosed(e, e.saved.of, face)
                  ELSE [e EXCEPT !.fault = "RangeError"]
             ELSE e
    IN  IF o.fault /= "none" THEN o
        ELSE IF o.dyn = NoTexture
        THEN [o EXCEPT !.pixels = "pixels",
                       !.calls = Append(@, <<"readPixels">>),
                       !.fault = "TypeError"]
        ELSE [o EXCEPT !.pixels = "pixels",
                       !.calls = @ \o <<<<"readPixels">>,
                                       <<"putImageData", o.dyn>>>>]

Invoke(e, cb, face) ==
    IF cb.kind = "host"
    THEN [e EXCEPT !.calls = Append(@, <<"host", cb.of, face>>)]
    ELSE IF cb.kind = "wrapper"
    THEN IF cb.of < generation THEN InvokeClosed(e, cb.of, face)
         ELSE InvokeWrapper(e, face)
    ELSE e

\* The state after the constructor: the list is filled, nothing is
\* previewed.
TexInit ==
    /\ \E n \in 0..Len(SceneTextures) : textures = SubSeq(SceneTextures, 1, n)
    /\ editedObject \in {Null, "obj"}
    /\ objectProperty = NoTexture
    /\ rows = FillTextureList(textures, <<>>)
    /\ pending = [f \in FileNames |-> 0]
    /\ started = 0
    /\ targetTexture = NoTexture
    /\ dynamicTexture = NoTexture
    /\ previews = <<>>
    /\ currentRenderTarget = NoTexture
    /\ currentPixels = Null
    /\ currentOnAfterRender = NoCallback
    /\ onAfterRender = [p \in DOMAIN textures |->
                          IF textures[p].isRenderTarget /\ textures[p].host
                          THEN HostCallback(p) ELSE NoCallback]
    /\ texCalls = <<>>
    /\ texFault = "none"
    /\ texReturn = <<>>
    /\ lastTexOp = <<"init">>
    /\ closed = FALSE
    /\ generation = 1
    /\ closedFields = <<>>
    /\ orphans = [f \in FileNames |-> 0]

\* What onEvent(ev) does besides returning. OnEventAnyScene is the faulty
\* variant that refills the list on every scene event.
OnEventAnyScene(ev) ==
    IF ev.eventType = "SCENE_EVENT" THEN "fill"
    ELSE IF ev.eventType = "GUI_EVENT"
    THEN IF ev.guiEvent = "LAYOUT_CHANGED" THEN "resize" ELSE "nothing"
    ELSE "nothing"

OnEventDoes(ev) ==
    IF ev.eventType = "SCENE_EVENT"
    THEN IF ev.sceneEvent = "OBJECT_ADDED" \/ ev.sceneEvent = "OBJECT_REMOVED"
         THEN "fill" ELSE "nothing"
    ELSE IF ev.eventType = "GUI_EVENT"
    THEN IF ev.guiEvent = "LAYOUT_CHANGED" THEN "resize" ELSE "nothing"
    ELSE "nothing"

\* onEvent(ev)
OnEvent(ev) ==
    /\ ~closed
    /\ rows' = IF OnEventDoes(ev) = "fill"
               THEN FillTextureList(textures, rows) ELSE rows
    /\ texCalls' = IF OnEventDoes(ev) = "resize"
                   THEN <<<<"resize">>>> ELSE <<>>
    /\ texFault' = "none"
    /\ texReturn' = <<FALSE>>
    /\ lastTexOp' = <<"onEvent", ev>>
    /\ UNCHANGED <<textures, editedObject, objectProperty, pending, started,
                   targetTexture, dynamicTexture, previews,
                   currentRenderTarget, currentPixels, currentOnAfterRender,
                   onAfterRender>>
    /\ UNCHANGED <<toolVars, closeVars>>

\* _texturesList.onReload()
OnReload ==
    /\ ~closed
    /\ rows' = FillTextureList(textures, rows)
    /\ texCalls' = <<>>
    /\ texFault' = "none"
    /\ texReturn' = <<>>
    /\ lastTexOp' = <<"onReload">>
    /\ UNCHANGED <<textures, editedObject, objectProperty, pending, started,
                   targetTexture, dynamicTexture, previews,
                   currentRenderTarget, currentPixels, currentOnAfterRender,
                   onAfterRender>>
    /\ UNCHANGED <<toolVars, closeVars>>

\* _texturesList.onClick(selected)
OnClick(selected) ==
    /\ ~closed
    /\ Commit(OnClickResult(EditorState, selected))
    /\ texReturn' = <<>>
    /\ lastTexOp' = <<"onClick", selected>>
    /\ UNCHANGED <<textures, editedObject, rows, pending, started>>
    /\ UNCHANGED <<toolVars, closeVars>>

\* The user clicks a row of the list (the grid hands its recid to onClick)
\* or clears the selection.
ClickRow(k) ==
    /\ k \in DOMAIN rows
    /\ OnClick(<<rows[k].recid>>)

ClickNothing == OnClick(<<>>)

\* The lists of files the user may choose when at most n reads may start.
FileLists(n) == UNION {[1..k -> FileNames] : k \in 1..n}

\* _texturesList.onAdd() and the onchange of the file input with the chosen
\* files: a read of each file is started.
OnAddFiles(files) ==
    /\ ~closed
    /\ started + Len(files) <= MaxFiles
    /\ started' = started + Len(files)
    /\ pending' = [f \in FileNames |->
                     pending[f] + Cardinality({k \in DOMAIN files : files[k] = f})]
    /\ texCalls' = <<>>
    /\ texFault' = "none"
    /\ texReturn' = <<>>
    /\ lastTexOp' = <<"onAdd", files>>
    /\ UNCHANGED <<textures, editedObject, objectProperty, rows, targetTexture,
                   dynamicTexture, previews, currentRenderTarget,
                   currentPixels, currentOnAfterRender, onAfterRender>>
    /\ UNCHANGED <<toolVars, closeVars>>

\* The recid _onReadFileCallback gives the row of a loaded file.
NewRowRecid(rs) == GetRowCount(rs) - 1

\* The texture Texture.CreateFromBase64String(data, name, ...) creates, with
\* its name after texture.name.replace("data:", "").
CreatedTexture(name) ==
    SceneTexture(ReplaceFirst(<<"data:">> \o name, "data:"),
                 TRUE, FALSE, FALSE, FALSE)

\* The callback _onReadFileCallback(name) returns, run when the read of the
\* file completes.
OnReadFile(name) ==
    /\ pending[name] > 0
    /\ pending' = [pending EXCEPT ![name] = @ - 1]
    /\ textures' = Append(textures, CreatedTexture(name))
    /\ onAfterRender' = Append(onAfterRender, NoCallback)
    /\ \E r \in AddRowOutcomes(rows, [name |-> name,
                                       recid |-> NewRowRecid(rows)], closed) :
          /\ rows' = r.rows
          /\ texFault' = r.fault
    /\ texCalls' = <<<<"CreateFromBase64String">>, <<"addRow">>>>
    /\ texReturn' = <<>>
    /\ lastTexOp' = <<"onReadFile", name>>
    /\ UNCHANGED <<editedObject, objectProperty, started, targetTexture,
                   dynamicTexture, previews, currentRenderTarget,
                   currentPixels, currentOnAfterRender>>
    /\ UNCHANGED <<toolVars, closeVars>>

\* The host engine renders the render target at position p for face face
\* and calls its onAfterRender.
Render(p, face) ==
    /\ p \in DOMAIN textures
    /\ textures[p].isRenderTarget
    /\ Commit(Invoke(EditorState, onAfterRender[p], face))
    /\ texReturn' = <<>>
    /\ lastTexOp' = <<"render", p, face>>
    /\ UNCHANGED <<textures, editedObject, rows, pending, started>>
    /\ UNCHANGED <<toolVars, closeVars>>

TexNext ==
    \/ \E ev \in Events : OnEvent(ev)
    \/ OnReload
    \/ \E k \in 1..(Len(SceneTextures) + MaxFiles) : ClickRow(k)
    \/ ClickNothing
    \/ \E files \in FileLists(MaxFiles) : OnAddFiles(files)
    \/ \E name \in FileNames : OnReadFile(name)
    \/ \E p \in 1..(Len(SceneTextures) + MaxFiles), face \in Faces :
          Render(p, face)

\* scene.dispose() of the preview scene: its textures are disposed.
DisposeScene(pv) ==
    [id \in DOMAIN pv |-> IF pv[id] = "live" THEN "disposed" ELSE pv[id]]

\* The calls of editPanel.onClose.
OnCloseCalls ==
    <<<<"destroy">>, <<"scene.dispose">>, <<"engine.dispose">>,
      <<"removeEventReceiver">>>>

\* editPanel.onClose(), run when the edit panel is closed.
OnClose ==
    /\ ~closed
    /\ closed' = TRUE
    /\ previews' = DisposeScene(previews)
    /\ texCalls' = OnCloseCalls
    /\ texFault' = "none"
    /\ texReturn' = <<>>
    /\ lastTexOp' = <<"onClose">>
    /\ UNCHANGED <<textures, editedObject, objectProperty, rows, pending,
                   started, targetTexture, dynamicTexture,
                   currentRenderTarget, currentPixels, currentOnAfterRender,
                   onAfterRender>>
    /\ UNCHANGED <<generation, closedFields, orphans>>
    /\ UNCHANGED toolVars

\* new GUITextureEditor(core, objectName, object, propertyPath) on the same
\* scene, object and property: editPanel.close() closes the panel of the
\* editor before it, if it is still open, and the new editor starts from
\* its initial fields and a filled list. The editor before it keeps its
\* fields, its file reads go on.
OpenEditor ==
    /\ generation < MaxEditors
    /\ generation' = generation + 1
    /\ closed' = FALSE
    /\ closedFields' = Append(closedFields,
                              [saved |-> currentOnAfterRender,
                               dyn |-> dynamicTexture /= NoTexture])
    /\ orphans' = [f \in FileNames |-> orphans[f] + pending[f]]
    /\ pending' = [f \in FileNames |-> 0]
    /\ rows' = FillTextureList(textures, <<>>)
    /\ targetTexture' = NoTexture
    /\ dynamicTexture' = NoTexture
    /\ previews' = <<>>
    /\ currentRenderTarget' = NoTexture
    /\ currentPixels' = Null
    /\ currentOnAfterRender' = NoCallback
    /\ texCalls' = IF closed THEN <<>> ELSE OnCloseCalls
    /\ texFault' = "none"
    /\ texReturn' = <<>>
    /\ lastTexOp' = <<"open">>
    /\ UNCHANGED <<textures, editedObject, objectProperty, started,
                   onAfterRender>>
    /\ UNCHANGED toolVars

\* The callback _onReadFileCallback(name) of an editor that was replaced,
\* run when the read completes: the texture is created in the scene and
\* addRow is called on that editor's destroyed list, which stores the row or
\* throws.
OnOrphanRead(name) ==
    /\ orphans[name] > 0
    /\ orphans' = [orphans EXCEPT ![name] = @ - 1]
    /\ textures' = Append(textures, CreatedTexture(name))
    /\ onAfterRender' = Append(onAfterRender, NoCallback)
    /\ texFault' \in {"none", "TypeError"}
    /\ texCalls' = <<<<"CreateFromBase64String">>, <<"addRow">>>>
    /\ texReturn' = <<>>
    /\ lastTexOp' = <<"onOrphanRead", name>>
    /\ UNCHANGED <<editedObject, objectProperty, rows, pending, started,
                   targetTexture, dynamicTexture, previews,
                   currentRenderTarget, currentPixels, currentOnAfterRender>>
    /\ UNCHANGED <<closed, generation, closedFields>>
    /\ UNCHANGED toolVars

\* The texture editors opened and closed on one scene.
CloseNext ==
    \/ \E ev \in Events : OnEvent(ev)
    \/ OnReload
    \/ \E k \in 1..(Len(SceneTextures) + MaxFiles) : ClickRow(k)
    \/ ClickNothing
    \/ \E files \in FileLists(MaxFiles) : OnAddFiles(files)
    \/ \E name \in FileNames : OnReadFile(name)
    \/ \E p \in 1..(Len(SceneTextures) + MaxFiles), face \in Faces :
          Render(p, face)
    \/ OnClose
    \/ OpenEditor
    \/ \E name \in FileNames : OnOrphanRead(name)

(***************************************************************************)
(* Specifications                                                          *)
(***************************************************************************)

vars == <<toolVars, texVars, closeVars>>

\* The texture editor as the edition tools leave it alone: closed on an
\* empty scene.
TexIdle ==
    /\ textures = <<>>
    /\ editedObject = Null
    /\ objectProperty = NoTexture
    /\ rows = <<>>
    /\ pending = [f \in FileNames |-> 0]
    /\ started = 0
    /\ targetTexture = NoTexture
    /\ dynamicTexture = NoTexture
    /\ previews = <<>>
    /\ currentRenderTarget = NoTexture
    /\ currentPixels = Null
    /\ currentOnAfterRender = NoCallback
    /\ onAfterRender = <<>>
    /\ texCalls = <<>>
    /\ texFault = "none"
    /\ texReturn = <<>>
    /\ lastTexOp = <<"init">>
    /\ closed = TRUE
    /\ generation = 0
    /\ closedFields = <<>>
    /\ orphans = [f \in FileNames |-> 0]

Init == ToolsInit /\ TexIdle

\* The edition-tools manager.
Spec == Init /\ [][Next]_vars

\* The edition-tools manager has no part in the texture editor: it stays
\* as constructed.
TexSpecInit == ToolsInit /\ TexInit

\* The texture editor.
TexSpec == TexSpecInit /\ [][TexNext]_vars

\* The texture editors of one scene, with the closing of the edit panel,
\* on the scenes of at most MaxCloseScene textures.
CloseSpecInit == TexSpecInit /\ Len(textures) <= MaxCloseScene

CloseSpec == CloseSpecInit /\ [][CloseNext]_vars

(***************************************************************************)
(* Properties of EditorEditionTools                                        *)
(***************************************************************************)

Range(f) == {f[k] : k \in DOMAIN f}

\* The registered tools whose isSupported accepts o, in registration
\* order.
Supporters(o) ==
    SelectSeq([i \in 1..Len(tools) |-> i],
              LAMBDA i : IsSupported(tools[i], o))

\* The registered tools have pairwise distinct tab names.
DistinctTabNames ==
    \A i, j \in 1..Len(tools) : tools[i].tabName = tools[j].tabName => i = j

\* The last operation was a call of setObject (refresh calls it too).
AfterSetObject == lastOp[1] \in {"setObject", "refresh"}

\* currentTools and the tabs are those of the tools supporting o.
ToolsAndTabsMatch(o) ==
    /\ currentTools = Supporters(o)
    /\ \A i \in 1..Len(tools) :
          (tools[i].tabName \in VisibleTabs) <=> (i \in Range(currentTools))

C2_OneContainer ==
    /\ DistinctTabNames =>
         /\ Cardinality(containers) <= 1
         /\ \A i \in containers :
               /\ i \in Range(currentTools)
               /\ IsSupported(tools[i], currentObject)
    /\ (AfterSetObject /\ Supporters(lastOp[2]) = <<>>) =>
         (containers = {} /\ VisibleTabs = {})

\* C2 witness: three tools of distinct names, two visible tabs, and the
\* container shown after a click is the second supporting tool's.
C2_Witness ==
    /\ DistinctTabNames
    /\ Len(tools) = 3
    /\ lastOp[1] = "click"
    /\ Len(currentTools) = 2
    /\ containers = {currentTools[2]}

\* What setObject(o) leaves shown, from lastTabName before the call:
\* the supporting tool whose tab is lastTabName when there is one, else the
\* first supporting tool.
StickyTab(o) ==
    LET sup == Supporters(o)
        sticky == {i \in Range(sup) : tools[i].tabName = lastTabName}
    IN  IF sticky /= {}
        THEN /\ \E i \in sticky : containers' = {i}
             /\ lastTabName' = lastTabName
        ELSE IF sup /= <<>>
        THEN /\ containers' = {sup[1]}
             /\ lastTabName' = tools[sup[1]].tabName
        ELSE TRUE

\* C3 as stated: setObject(o) shows the panel of the supporting tool whose
\* tabName is lastTabName and keeps lastTabName; failing that, it shows the
\* first supporting tool and lastTabName becomes its tabName. Two tools
\* sharing a tab name refute it.
C3_StickyAlways ==
    [][lastOp'[1] \in {"setObject", "refresh"} => StickyTab(lastOp'[2])]_toolVars

\* C3 amended: the same, provided the registered tools have pairwise
\* distinct tab names.
C3_Sticky ==
    [][(lastOp'[1] \in {"setObject", "refresh"} /\ DistinctTabNames)
         => StickyTab(lastOp'[2])]_toolVars

\* C3 witness: after a click moved lastTabName to the second of two
\* supporting tools, setObject of another object kept that tool's panel.
C3_Witness ==
    /\ lastOp[1] = "setObject"
    /\ DistinctTabNames
    /\ Len(currentTools) >= 2
    /\ containers = {currentTools[2]}
    /\ lastTabName = tools[currentTools[2]].tabName

\* C4: once setObject has run and no tool was added since, refresh() leaves
\* currentObject, currentTools, the visible tabs, the containers shown and
\* lastTabName as they were.
C4_RefreshIdempotent ==
    [][(settled /\ lastOp'[1] = "refresh")
         => UNCHANGED <<currentObject, currentTools, tabHidden, containers,
                        lastTabName>>]_toolVars

\* C4 witness: refresh has run while the panel shown, after a click, was
\* that of the second supporting tool.
C4_Witness ==
    /\ lastOp[1] = "refresh"
    /\ settled
    /\ Len(currentTools) >= 2
    /\ containers = {currentTools[2]}

\* C8: updateDisplay() calls updateDisplay once on each tool of currentTools,
\* in order, and on no other tool; currentTools holds the tools that
\* supported the object of the last setObject; and the call changes none of
\* currentObject, currentTools, lastTabName, the tabs and the containers.
C8_UpdateDisplay ==
    [][lastOp'[1] = "updateDisplay" =>
         /\ toolCalls' = [k \in 1..Len(currentTools) |->
                             <<"updateDisplay", currentTools[k]>>]
         /\ \A i \in 1..Len(tools) :
               Cardinality({k \in DOMAIN toolCalls' : toolCalls'[k][2] = i})
                 = IF i \in Range(currentTools) THEN 1 ELSE 0
         /\ settled => currentTools = Supporters(currentObject)
         /\ UNCHANGED <<currentObject, currentTools, lastTabName, tabHidden,
                        containers>>]_toolVars

\* C8 witness: updateDisplay has run with two tools in currentTools and one
\* registered tool outside it.
C8_Witness ==
    /\ lastOp[1] = "updateDisplay"
    /\ Len(toolCalls) = 2
    /\ Len(tools) = 3

(***************************************************************************)
(* Properties of GUITextureEditor                                          *)
(***************************************************************************)

\* C5: no handler dereferences an absent texture: no handler ends with a
\* TypeError, _restorRenderTarget (run when _currentRenderTarget is set)
\* finds _dynamicTexture set, and the index a row click hands to onClick
\* designates an element of currentScene.textures. The row of a file loaded
\* into a scene without textures refutes it: its recid is -1.
C5_NoAbsentDereference ==
    /\ texFault = "none"
    /\ currentRenderTarget /= NoTexture => dynamicTexture /= NoTexture
    /\ (lastTexOp[1] = "onClick" /\ Len(lastTexOp[2]) > 0) =>
          TextureAt(lastTexOp[2][1]) /= NoTexture

\* C6: while the render target at position p is previewed, a call of its
\* onAfterRender(face) calls the host's callback of p, if it has one, once
\* with the same face, then reads the pixels and puts them into the dynamic
\* texture, which is _targetTexture.
C6_WrapperOrder ==
    [][(lastTexOp'[1] = "render" /\ currentRenderTarget = lastTexOp'[2]) =>
         /\ texCalls' =
               (IF textures[lastTexOp'[2]].host
                THEN <<<<"host", lastTexOp'[2], lastTexOp'[3]>>>> ELSE <<>>)
               \o <<<<"readPixels">>, <<"putImageData", targetTexture>>>>
         /\ targetTexture = dynamicTexture
         /\ targetTexture /= NoTexture
         /\ texFault' = "none"]_texVars

\* C6 witness: the previewed render target, which has a callback of the
\* host, was rendered for face 1 and the three calls were made.
C6_Witness ==
    /\ lastTexOp = <<"render", 1, 1>>
    /\ currentRenderTarget = 1
    /\ textures[1].host
    /\ onAfterRender[1] = Wrapper
    /\ currentOnAfterRender = HostCallback(1)
    /\ Len(texCalls) = 3

\* An event on which onEvent refills the list, and one on which it resizes
\* the preview engine.
RefillEvent(ev) ==
    /\ ev.eventType = "SCENE_EVENT"
    /\ ev.sceneEvent \in {"OBJECT_ADDED", "OBJECT_REMOVED"}

ResizeEvent(ev) ==
    /\ ev.eventType = "GUI_EVENT"
    /\ ev.guiEvent = "LAYOUT_CHANGED"

\* C7: onEvent(ev) returns false; it refills the list exactly on a scene
\* event OBJECT_ADDED or OBJECT_REMOVED and leaves the rows alone on any
\* other event; it resizes the engine exactly on a GUI event LAYOUT_CHANGED;
\* and it never changes the preview texture or the render-target hook.
C7_OnEvent ==
    [][lastTexOp'[1] = "onEvent" =>
         /\ texReturn' = <<FALSE>>
         /\ rows' = IF RefillEvent(lastTexOp'[2])
                    THEN [k \in 1..Len(textures) |->
                            [name |-> textures[k].name, recid |-> k - 1]]
                    ELSE rows
         /\ texCalls' = IF ResizeEvent(lastTexOp'[2])
                        THEN <<<<"resize">>>> ELSE <<>>
         /\ UNCHANGED <<textures, targetTexture, dynamicTexture, previews,
                        currentRenderTarget, currentPixels,
                        currentOnAfterRender, onAfterRender,
                        objectProperty>>]_texVars

\* C7 witness: a scene event OBJECT_REMOVED refilled a list that held the
\* row of a loaded file, while a render target was previewed.
C7_Witness ==
    /\ lastTexOp[1] = "onEvent"
    /\ lastTexOp[2].sceneEvent = "OBJECT_REMOVED"
    /\ started = 1
    /\ Len(textures) = 2
    /\ Len(rows) = 2
    /\ rows[2].recid = 1
    /\ currentRenderTarget = 1

\* C9: the recids of the rows are pairwise distinct and the row of recid i
\* carries the name of currentScene.textures[i]. The row of a loaded file
\* refutes it: its recid is that of the row before it.
C9_RowsDesignateTextures ==
    /\ \A j, k \in DOMAIN rows : rows[j].recid = rows[k].recid => j = k
    /\ \A k \in DOMAIN rows :
          /\ TextureAt(rows[k].recid) /= NoTexture
          /\ rows[k].name = textures[TextureAt(rows[k].recid)].name

\* C10: _targetTexture is null or a texture that has not been disposed, and
\* no preview texture is disposed twice. A selection made after a render
\* target was previewed refutes it.
C10_TargetNotDisposed ==
    /\ targetTexture /= NoTexture => previews[targetTexture] = "live"
    /\ \A id \in DOMAIN previews : previews[id] /= "twice"

\* The callback a scene texture has when no editor previews it.
OriginalCallback(p) ==
    IF textures[p].isRenderTarget /\ textures[p].host
    THEN HostCallback(p) ELSE NoCallback

\* The positions whose onAfterRender is the editor's wrapper.
Hooked == {p \in DOMAIN onAfterRender : onAfterRender[p].kind = "wrapper"}

\* C11: the render-target hook never nests and is undone by the next
\* selection: at most one render target has the editor's wrapper as its
\* onAfterRender, the callback saved in _currentOnAfterRender is never a
\* wrapper, and every texture's onAfterRender is either the callback it had
\* before any preview or the wrapper around exactly that callback.
C11_HookNeverNests ==
    /\ Cardinality(Hooked) <= 1
    /\ currentOnAfterRender.kind /= "wrapper"
    /\ \A p \in DOMAIN textures :
          \/ onAfterRender[p] = OriginalCallback(p)
          \/ /\ onAfterRender[p] = Wrapper
             /\ currentRenderTarget = p
             /\ currentOnAfterRender = OriginalCallback(p)

\* A render target with a host callback is previewed again after an earlier
\* preview was undone (the earlier dynamic texture has been disposed).
C11_Witness ==
    /\ lastTexOp = <<"onClick", <<0>>>>
    /\ currentRenderTarget = 1
    /\ onAfterRender[1] = Wrapper
    /\ currentOnAfterRender = HostCallback(1)
    /\ \E id \in DOMAIN previews : previews[id] /= "live"

\* Whether a click on the texture at position p stops before "Guess
\* texture" or inside it.
ClickStops(p) ==
    \/ \E piece \in {".hdr", ".HDR"} :
          \E k \in DOMAIN textures[p].name : textures[p].name[k] = piece
    \/ /\ textures[p].isCube
       /\ ~textures[p].buffer
       /\ textures[p].name \notin FilesTextures

\* C13: a click with an empty selection changes no editor state; a click on
\* an .hdr texture or on a cube texture without buffer and file leaves
\* object[propertyPath] unchanged and creates no preview texture; every
\* other click on a texture T sets object[propertyPath] to T when the editor
\* has an object and assigns nothing when it has none.
C13_ClickEffect ==
    [][lastTexOp'[1] = "onClick" =>
        LET sel == lastTexOp'[2]
            p == IF Len(sel) = 0 THEN NoTexture ELSE TextureAt(sel[1])
        IN  /\ Len(sel) = 0 =>
                UNCHANGED <<onAfterRender, targetTexture, objectProperty,
                            currentRenderTarget, currentOnAfterRender,
                            dynamicTexture, currentPixels, rows, textures>>
            /\ (p /= NoTexture /\ ClickStops(p)) =>
                /\ objectProperty' = objectProperty
                /\ targetTexture' = targetTexture
                /\ \A id \in DOMAIN previews' :
                      previews'[id] = "live" =>
                          id \in DOMAIN previews /\ previews[id] = "live"
            /\ (p /= NoTexture /\ ~ClickStops(p)) =>
                /\ objectProperty' =
                      IF editedObject = "obj" THEN p ELSE objectProperty
                /\ targetTexture' /= NoTexture
                /\ previews'[targetTexture'] = "live"
    ]_vars

\* A click on a texture that is neither .hdr nor a bare cube, in an editor
\* constructed without an object, after which nothing is assigned.
C13_Witness ==
    /\ lastTexOp[1] = "onClick"
    /\ Len(lastTexOp[2]) = 1
    /\ TextureAt(lastTexOp[2][1]) /= NoTexture
    /\ ~ClickStops(TextureAt(lastTexOp[2][1]))
    /\ editedObject = Null
    /\ objectProperty = NoTexture
    /\ targetTexture /= NoTexture

\* C18: between handlers, _currentRenderTarget is set exactly when
\* _dynamicTexture is; while it is set _targetTexture is that dynamic
\* texture; and _currentPixels is set only while it is set.
C18_RenderTargetFields ==
    /\ currentRenderTarget /= NoTexture <=> dynamicTexture /= NoTexture
    /\ currentRenderTarget /= NoTexture => targetTexture = dynamicTexture
    /\ currentPixels /= Null => currentRenderTarget /= NoTexture

\* A previewed render target has been rendered: the three fields and the
\* pixels are all set.
C18_Witness ==
    /\ currentRenderTarget /= NoTexture
    /\ dynamicTexture /= NoTexture
    /\ targetTexture = dynamicTexture
    /\ currentPixels /= Null

\* The calls setObject(o) makes for the tools that support o, in
\* registration order: update, then onFinishChange, tool by tool.
WiringCalls(o) ==
    [k \in 1..(2 * Len(Supporters(o))) |->
        IF k % 2 = 1 THEN <<"update", Supporters(o)[(k + 1) \div 2]>>
        ELSE <<"onFinishChange", Supporters(o)[k \div 2]>>]

\* C14: setObject(o) calls t.update(o) and then registers one finish-change
\* handler for each tool that supports o and for no other tool, in
\* registration order and before the tab is changed; every entry a handler
\* pushes to UndoRedo has baseObject equal to t.object when the change is
\* made, from equal to the initial value and to equal to the new value.
C14_UndoWiring ==
    [][/\ lastOp'[1] \in {"setObject", "refresh"} =>
            LET o == lastOp'[2]
                n == 2 * Len(Supporters(o))
            IN  /\ SubSeq(toolCalls', 1, n) = WiringCalls(o)
                /\ Len(toolCalls') = IF n > 0 THEN n + 1 ELSE 0
                /\ n > 0 => toolCalls'[n + 1][1] = "changeTab"
                /\ handlers' = handlers \cup Range(Supporters(o))
                /\ pushed' = <<>>
       /\ lastOp'[1] = "finishChange" =>
            /\ Len(pushed') >= 1
            /\ \A k \in DOMAIN pushed' :
                  /\ pushed'[k].baseObject = toolObject[lastOp'[2]]
                  /\ pushed'[k].property = lastChange'.property
                  /\ pushed'[k].from = lastChange'.initialValue
                  /\ pushed'[k].to = lastChange'.result
    ]_vars

\* The second of two tools supporting the edited object reports a change
\* from v1 to v2, and the entry pushed names that object.
C14_Witness ==
    /\ lastOp = <<"finishChange", 2>>
    /\ Len(Supporters("mesh")) >= 2
    /\ currentObject = "mesh"
    /\ Len(pushed) = 1
    /\ pushed[1].baseObject = "mesh"
    /\ pushed[1].from = "v1"
    /\ pushed[1].to = "v2"

\* The tab names of the tools in ts.
ToolTabNames(ts) == {ts[i].tabName : i \in DOMAIN ts}

SceneCount ==
    Cardinality({p \in DOMAIN textures : textures[p] \in Range(SceneTextures)})

\* C12: closing the edit panel during a preview restores the render
\* target's onAfterRender: no texture keeps the wrapper of a closed editor,
\* no render after the close puts pixels into a disposed dynamic texture,
\* and no editor saves a wrapper as the original callback. A preview that
\* is running when the panel is closed refutes it.
C12_CloseRestoresHook ==
    /\ \A p \in DOMAIN onAfterRender :
          onAfterRender[p].kind = "wrapper" =>
              onAfterRender[p].of = generation /\ ~closed
    /\ lastTexOp[1] = "render" =>
          \A k \in DOMAIN texCalls :
             /\ texCalls[k][1] /= "closedPutImageData"
             /\ texCalls[k][1] = "putImageData" =>
                   previews[texCalls[k][2]] = "live"
    /\ currentOnAfterRender.kind /= "wrapper"

\* C17: a file read that completes after onClose does not call addRow on
\* the destroyed list, and with the panel open every completed read adds one
\* texture and one row, so that when all reads are done there is one texture
\* and one row per chosen file. A read still in flight when the panel is
\* closed refutes it.
C17_ReadAfterClose ==
    [][/\ (lastTexOp'[1] = "onReadFile" /\ closed) =>
             \A k \in DOMAIN texCalls' : texCalls'[k][1] /= "addRow"
       /\ lastTexOp'[1] = "onOrphanRead" =>
             \A k \in DOMAIN texCalls' : texCalls'[k][1] /= "addRow"
       /\ (lastTexOp'[1] = "onReadFile" /\ ~closed) =>
             /\ Len(textures') = Len(textures) + 1
             /\ Len(rows') = Len(rows) + 1
       /\ (generation' = 1 /\ ~closed'
              /\ \A f \in FileNames : pending'[f] = 0) =>
             /\ Len(textures') = SceneCount' + started'
             /\ Len(rows') = Len(textures')
    ]_vars

====
